---- MODULE Spec2Model ----
(***************************************************************************)
(* Seat-selection controller of the reservation confirmation page          *)
(* (ReservationConfirmationPage.jsx), the seat-map widget (SeatMap.jsx)    *)
(* and the reservation gateway (apiClient.js).                             *)
(*                                                                         *)
(* JavaScript strings that the code inspects character by character (seat  *)
(* identifiers) are sequences of one-character strings; strings the code   *)
(* only stores and compares (messages, codes, timestamps, reservation ids) *)
(* are TLA+ strings.  null / undefined is NullStr for a string, NoCount    *)
(* for a number, a record with isNull = TRUE for an object and a record    *)
(* with arr = FALSE for a value that is not an array.                      *)
(***************************************************************************)
EXTENDS Integers, Sequences, FiniteSets, TLC

\* ---------------------------------------------------------------- bounds
\* fetches that may be outstanding at once (superseded ones included)
MaxLoads == 2
\* presses of "Try again"
MaxRefresh == 1
\* seat-update requests that may be outstanding at once
MaxUpdates == 2
\* entries of a seat list handed to the gateway or returned by the server
MaxSeatListLen == 3
\* message requests the chat page may issue
MaxSends == 2

\* ------------------------------------------------------- null / undefined
NullStr == "<null>"
NoCount == 0 - 1
NotArray == [arr |-> FALSE, items |-> <<>>]
Arr(s) == [arr |-> TRUE, items |-> s]

\* ------------------------------------------------------- string helpers
\* String.prototype.toUpperCase on one code unit
Upper(c) ==
  CASE c = "a" -> "A"
    [] c = "b" -> "B"
    [] c = "c" -> "C"
    [] OTHER -> c

toUpperCase(s) == [i \in 1..Len(s) |-> Upper(s[i])]

RECURSIVE trimStart(_)
trimStart(s) ==
  IF s = <<>> THEN <<>>
  ELSE IF Head(s) = " " THEN trimStart(Tail(s)) ELSE s

RECURSIVE trimEnd(_)
trimEnd(s) ==
  IF s = <<>> THEN <<>>
  ELSE IF s[Len(s)] = " " THEN trimEnd(SubSeq(s, 1, Len(s) - 1)) ELSE s

\* String.prototype.trim
trim(s) == trimEnd(trimStart(s))

\* mutant: the identifier is put in upper case but not trimmed
NormalizeSeatIdNoTrim(seat) == toUpperCase(seat)

\* String(seat).trim().toUpperCase()
NormalizeSeatId(seat) == toUpperCase(trim(seat))

\* UTF-16 code unit of the characters seat identifiers are written with
CharCode(c) ==
  CASE c = " " -> 32
    [] c = "1" -> 49
    [] c = "A" -> 65
    [] c = "B" -> 66
    [] c = "C" -> 67
    [] c = "a" -> 97
    [] c = "b" -> 98
    [] c = "c" -> 99
    [] OTHER -> 0

\* s < t in the order Array.prototype.sort uses without a comparator
RECURSIVE StrLess(_, _)
StrLess(s, t) ==
  IF t = <<>> THEN FALSE
  ELSE IF s = <<>> THEN TRUE
  ELSE IF CharCode(Head(s)) # CharCode(Head(t))
       THEN CharCode(Head(s)) < CharCode(Head(t))
       ELSE StrLess(Tail(s), Tail(t))

RECURSIVE InsertSorted(_, _)
InsertSorted(x, s) ==
  IF s = <<>> THEN <<x>>
  ELSE IF StrLess(Head(s), x) THEN <<Head(s)>> \o InsertSorted(x, Tail(s))
  ELSE <<x>> \o s

\* mutant: the list is shown in the order it is held, not sorted
SortSeatsKeepsOrder(s) == s

\* [...list].sort()
RECURSIVE SortSeats(_)
SortSeats(s) ==
  IF s = <<>> THEN <<>> ELSE InsertSorted(Head(s), SortSeats(Tail(s)))

Range(s) == {s[i] : i \in 1..Len(s)}

Includes(s, x) == x \in Range(s)

\* prev.filter((seat) => seat !== x)
RECURSIVE Without(_, _)
Without(s, x) ==
  IF s = <<>> THEN <<>>
  ELSE IF Head(s) = x THEN Without(Tail(s), x)
  ELSE <<Head(s)>> \o Without(Tail(s), x)

\* Array.from(new Set(list)): first occurrences, in order
RECURSIVE Dedupe(_)
Dedupe(s) ==
  IF s = <<>> THEN <<>>
  ELSE <<Head(s)>> \o Dedupe(Without(Tail(s), Head(s)))

\* list.slice(0, n)
Slice(s, n) == SubSeq(s, 1, IF n < Len(s) THEN n ELSE Len(s))

RECURSIVE NonEmpty(_)
NonEmpty(s) ==
  IF s = <<>> THEN <<>>
  ELSE IF Head(s) = <<>> THEN NonEmpty(Tail(s))
  ELSE <<Head(s)>> \o NonEmpty(Tail(s))

\* a list element that is null or undefined
NullSeat == <<NullStr>>

\* list.filter((seat) => seat !== null && seat !== undefined)
RECURSIVE NotNull(_)
NotNull(s) ==
  IF s = <<>> THEN <<>>
  ELSE IF Head(s) = NullSeat THEN NotNull(Tail(s))
  ELSE <<Head(s)>> \o NotNull(Tail(s))

\* mutant: duplicates are removed before the identifiers are normalized
NormalizeSeatListDedupeFirst(s) ==
  LET d == Dedupe(NotNull(s))
  IN NonEmpty([i \in 1..Len(d) |-> NormalizeSeatId(d[i])])

\* Array.from(new Set(list.filter(not null).map(trim + uppercase).filter(Boolean)))
NormalizeSeatList(s) ==
  LET present == NotNull(s)
  IN Dedupe(NonEmpty([i \in 1..Len(present) |-> NormalizeSeatId(present[i])]))

Max(a, b) == IF a > b THEN a ELSE b

\* ------------------------------------------------- data the server supplies
NullSeatMap == [isNull |-> TRUE, seats |-> <<>>]

\* a seat map, its sections and rows flattened into one list of seats
CabinA ==
  [isNull |-> FALSE,
   seats |-> << [id |-> <<"1", "A">>, status |-> "available"],
                [id |-> <<"1", "B">>, status |-> "booked"],
                [id |-> <<"1", "C">>, status |-> "held"] >>]

CabinB ==
  [isNull |-> FALSE,
   seats |-> << [id |-> <<"1", "A">>, status |-> "pending"],
                [id |-> <<"1", "b">>, status |-> "available"],
                [id |-> <<"1", "C">>, status |-> "available"] >>]

\* the reservation ids a link can carry ("" when the link has none)
ReservationIds == {"", "R1"}

\* the parts of a success envelope the page reads: passenger_count (pc),
\* passengers.length (n), seat_selection.selected_seats (sel),
\* seat_selection.selectedSeats (selCamel),
\* seat_selection.updated_at (upd), reservation.seat_assignments (asg),
\* reservation.seat_assignments_updated_at (asgUpd), seat_map (map)
Shapes ==
  { [pc |-> 2, n |-> 2, sel |-> Arr(<< <<"1", "a">> >>), selCamel |-> NotArray,
     upd |-> "t1",
     asg |-> Arr(<< <<"1", "C">> >>), asgUpd |-> "t0", map |-> CabinA],
    [pc |-> 1, n |-> 1, sel |-> Arr(<< <<"1", "A">>, <<"1", "B">> >>),
     selCamel |-> NotArray, upd |-> "t2",
     asg |-> NotArray, asgUpd |-> NullStr, map |-> CabinB],
    [pc |-> NoCount, n |-> 0, sel |-> NotArray, selCamel |-> NotArray, upd |-> NullStr,
     asg |-> Arr(<< <<" ", "1", "c">>, <<"1", "C">>, <<" ">> >>), asgUpd |-> "t1",
     map |-> CabinB] }

Envelope(rid, shape) ==
  [ok |-> TRUE,
   reservation |-> [reservation_id |-> rid,
                    passenger_count |-> shape.pc,
                    passengers |-> shape.n,
                    seat_assignments |-> shape.asg,
                    seat_assignments_updated_at |-> shape.asgUpd],
   seat_selection |-> [selected_seats |-> shape.sel, selectedSeats |-> shape.selCamel,
                       updated_at |-> shape.upd],
   seat_map |-> shape.map]

\* What a request can come back with: a response body (kind "data": an
\* envelope, ok or not), an HTTP error response (kind "http") or a rejected
\* network call without a response (kind "network").
DataOk(shape) ==
  [kind |-> "data", ok |-> TRUE, message |-> NullStr, code |-> NullStr,
   status |-> 200, shape |-> shape]

DataFail(message, code) ==
  [kind |-> "data", ok |-> FALSE, message |-> message, code |-> code,
   status |-> 200, shape |-> CHOOSE sh \in Shapes : TRUE]

HttpError(status, message, code) ==
  [kind |-> "http", ok |-> FALSE, message |-> message, code |-> code,
   status |-> status, shape |-> CHOOSE sh \in Shapes : TRUE]

NetworkError ==
  [kind |-> "network", ok |-> FALSE, message |-> "Network Error",
   code |-> "ERR_NETWORK", status |-> 0, shape |-> CHOOSE sh \in Shapes : TRUE]

SuccessResponses == {DataOk(sh) : sh \in Shapes}

FailureResponses ==
  { DataFail(NullStr, NullStr),
    NetworkError }

\* ------------------------------------------------------------- apiClient.js
NullReservation == [isNull |-> TRUE]

normalizeReservationPayload(value) ==
  LET reservation == value.reservation
      seatSelectionRaw == value.seat_selection
      fromReservation ==
        IF reservation.seat_assignments.arr
        THEN reservation.seat_assignments.items ELSE <<>>
      selectedCandidates ==
        IF seatSelectionRaw.selected_seats.arr
        THEN seatSelectionRaw.selected_seats ELSE seatSelectionRaw.selectedSeats
      normalizedSeats ==
        IF selectedCandidates.arr THEN selectedCandidates.items ELSE fromReservation
      selectedSeats == NormalizeSeatList(normalizedSeats)
      updatedAt ==
        IF seatSelectionRaw.updated_at # NullStr THEN seatSelectionRaw.updated_at
        ELSE reservation.seat_assignments_updated_at
  IN [isNull |-> FALSE,
      reservationId |-> reservation.reservation_id,
      passengerCount |-> reservation.passenger_count,
      passengers |-> reservation.passengers,
      seatMap |-> value.seat_map,
      seatSelection |-> [selectedSeats |-> selectedSeats, updatedAt |-> updatedAt],
      selectedSeats |-> selectedSeats]

Resolved(r) ==
  [ok |-> TRUE, reservation |-> r, message |-> NullStr, code |-> NullStr]

Rejected(message, code) ==
  [ok |-> FALSE, reservation |-> NullReservation, message |-> message, code |-> code]

\* the outcome of a gateway call whose HTTP request came back with resp
GatewayOutcome(reservationId, resp, msgDefault, msgNotFound, codeDefault) ==
  IF resp.kind = "data"
  THEN IF resp.ok
       THEN Resolved(normalizeReservationPayload(Envelope(reservationId, resp.shape)))
       ELSE Rejected(IF resp.message # NullStr THEN resp.message ELSE msgDefault,
                     IF resp.code # NullStr THEN resp.code ELSE codeDefault)
  ELSE IF resp.kind = "http"
  THEN Rejected(IF resp.message # NullStr THEN resp.message
                ELSE IF resp.status = 404 THEN msgNotFound ELSE msgDefault,
                IF resp.code # NullStr THEN resp.code ELSE codeDefault)
  ELSE Rejected(resp.message, resp.code)

fetchReservationById(reservationId, resp) ==
  IF reservationId = ""
  THEN Rejected("Reservation ID is required.", "RESERVATION_ID_REQUIRED")
  ELSE GatewayOutcome(reservationId, resp,
                      "Unable to load the reservation details right now.",
                      "We could not find a reservation with that ID.",
                      "RESERVATION_FETCH_FAILED")

\* the selected_seats list updateReservationSeatSelection puts in the request
UpdateRequestBody(seats) == NormalizeSeatList(seats)

updateReservationSeatSelection(reservationId, resp) ==
  IF reservationId = ""
  THEN Rejected("Reservation ID is required.", "RESERVATION_ID_REQUIRED")
  ELSE GatewayOutcome(reservationId, resp,
                      "Unable to update seat selection right now.",
                      "We could not find that reservation when updating seats.",
                      "SEAT_SELECTION_UPDATE_FAILED")

\* ------------------------------------------ ReservationConfirmationPage.jsx
VARIABLES
  reservationId,            \* useParams / ?id= of the current location
  locationReservation,      \* location.state.reservation (NullReservation if none)
  reservation,
  loading,
  error,
  refreshCount,
  seatMap,
  selectedSeats,
  seatSelectionUpdatedAt,
  seatSyncError,
  isSyncingSeats,
  isSeatModalOpen,
  showDialog,               \* SeatMap.jsx: the confirmation dialog of the widget
  loads,                    \* outstanding fetches, one per run of the load effect
  updates,                  \* outstanding seat-update requests
  chat,                     \* App.jsx: the state of ChatApp, the page of route "/"
  last                      \* history: the step taken last

vars ==
  <<reservationId, locationReservation, reservation, loading, error, refreshCount,
    seatMap, selectedSeats, seatSelectionUpdatedAt, seatSyncError, isSyncingSeats,
    isSeatModalOpen, showDialog, loads, updates, chat, last>>

\* the reservations the chat flow can hand over in location.state: each is
\* the output of normalizeReservationPayload (App.jsx redirectToReservation)
PreloadShapes == {sh \in Shapes : sh.pc \in {2, 1}}

LocationReservations(rid) ==
  {NullReservation} \cup
  (IF rid = "" THEN {}
   ELSE {normalizeReservationPayload(Envelope(rid, sh)) : sh \in PreloadShapes})

\* a link followed while the page is mounted carries no location.state
\* (only the chat flow, which is another route, passes a reservation)
FollowedLinkReservations(rid) == {NullReservation}

preloadedReservation(rid, loc) ==
  IF ~loc.isNull /\ loc.reservationId = rid THEN loc ELSE NullReservation

\* x.seatSelection?.selectedSeats ?? x.selectedSeats ?? []
SeatsOf(r) == IF r.isNull THEN <<>> ELSE r.seatSelection.selectedSeats

\* x.seatSelection?.updatedAt ?? ''
UpdatedAtOf(r) ==
  IF r.isNull THEN ""
  ELSE IF r.seatSelection.updatedAt = NullStr THEN "" ELSE r.seatSelection.updatedAt

\* x.seatMap ?? null
SeatMapOf(r) == IF r.isNull THEN NullSeatMap ELSE r.seatMap

\* Math.max(1, reservation.passengerCount ?? (passengers.length || 1))
MaxSelectable(r) ==
  LET fallbackPassengerCount == IF r.passengers # 0 THEN r.passengers ELSE 1
  IN Max(1, IF r.passengerCount # NoCount THEN r.passengerCount
            ELSE fallbackPassengerCount)

\* the page's passengerCount: reservation?.passengerCount ?? passengers.length
passengerCount(r) ==
  IF r.isNull THEN 0
  ELSE IF r.passengerCount # NoCount THEN r.passengerCount ELSE r.passengers

Step(op, tag, arg) == [op |-> op, tag |-> tag, arg |-> arg]

RemoveAt(s, i) == SubSeq(s, 1, i - 1) \o SubSeq(s, i + 1, Len(s))

\* the cleanup of the previous run of the load effect: cancelled = true
CancelAll(ls) == [i \in 1..Len(ls) |-> [ls[i] EXCEPT !.cancelled = TRUE]]

\* history: a newer load has started since these were issued
SupersedeAll(ls) == [i \in 1..Len(ls) |-> [ls[i] EXCEPT !.superseded = TRUE]]

\* the page renders the SeatMap widget (and so keeps its state) only here
WidgetMounted(ld, err, res, open, map) ==
  ~ld /\ err = "" /\ ~res.isNull /\ open /\ ~map.isNull

\* One run of the load effect for the link (rid, loc) with refresh count rc,
\* from the page state st: the state it leaves when it returns, the request
\* of loadReservation issued.
LoadEffect(st, rid, loc, rc) ==
  LET pre == preloadedReservation(rid, loc)
      hasInitialPreload == ~pre.isNull /\ rc = 0
      cancelledLoads == CancelAll(st.loads)
  IN IF rid = ""
     THEN [st EXCEPT !.loading = FALSE, !.loads = cancelledLoads]
     ELSE [reservation |-> IF hasInitialPreload THEN pre ELSE st.reservation,
           seatMap |-> IF hasInitialPreload THEN SeatMapOf(pre) ELSE st.seatMap,
           selectedSeats |-> IF hasInitialPreload THEN SeatsOf(pre) ELSE st.selectedSeats,
           seatSelectionUpdatedAt |->
             IF hasInitialPreload THEN UpdatedAtOf(pre) ELSE st.seatSelectionUpdatedAt,
           seatSyncError |-> IF hasInitialPreload THEN "" ELSE st.seatSyncError,
           loading |-> ~hasInitialPreload,
           error |-> "",
           loads |-> Append(SupersedeAll(cancelledLoads),
                            [rid |-> rid, cancelled |-> FALSE, superseded |-> FALSE])]

\* the useState initialisers of the page for the link (rid, loc)
InitialState(rid, loc) ==
  LET pre == preloadedReservation(rid, loc)
  IN [reservation |-> pre,
      seatMap |-> SeatMapOf(pre),
      selectedSeats |-> SeatsOf(pre),
      seatSelectionUpdatedAt |-> UpdatedAtOf(pre),
      seatSyncError |-> "",
      loading |-> pre.isNull,
      error |-> IF rid # "" THEN "" ELSE "Reservation ID missing from the link.",
      loads |-> <<>>]

PageState ==
  [reservation |-> reservation, seatMap |-> seatMap, selectedSeats |-> selectedSeats,
   seatSelectionUpdatedAt |-> seatSelectionUpdatedAt, seatSyncError |-> seatSyncError,
   loading |-> loading, error |-> error, loads |-> loads]

\* ChatApp as it is mounted: no session yet, createSession outstanding, the
\* welcome message shown (sends and issued follow the requests of the page)
ChatMounted ==
  [mounted |-> TRUE, sessionId |-> "", sessionLoading |-> TRUE, chatError |-> "",
   isSending |-> FALSE, input |-> <<>>, messages |-> <<"assistant">>,
   sessionRequest |-> TRUE, sends |-> <<>>, issued |-> 0]

\* the page takes the state st; the widget's dialog stays open (keep) only
\* while the widget stays mounted; the chat page is another route and is
\* not reached by anything the reservation page does
Commit(st, syncing, open, keep) ==
  /\ reservation' = st.reservation
  /\ seatMap' = st.seatMap
  /\ selectedSeats' = st.selectedSeats
  /\ seatSelectionUpdatedAt' = st.seatSelectionUpdatedAt
  /\ seatSyncError' = st.seatSyncError
  /\ loading' = st.loading
  /\ error' = st.error
  /\ loads' = st.loads
  /\ isSyncingSeats' = syncing
  /\ isSeatModalOpen' = open
  /\ showDialog' =
       (keep /\ WidgetMounted(st.loading, st.error, st.reservation, open, st.seatMap))
  /\ chat' = chat

\* The page is mounted on a link and the load effect has run once.
Init ==
  \E rid \in ReservationIds : \E loc \in LocationReservations(rid) :
    LET st == LoadEffect(InitialState(rid, loc), rid, loc, 0)
    IN /\ reservationId = rid
       /\ locationReservation = loc
       /\ refreshCount = 0
       /\ reservation = st.reservation
       /\ seatMap = st.seatMap
       /\ selectedSeats = st.selectedSeats
       /\ seatSelectionUpdatedAt = st.seatSelectionUpdatedAt
       /\ seatSyncError = st.seatSyncError
       /\ loading = st.loading
       /\ error = st.error
       /\ loads = st.loads
       /\ isSyncingSeats = FALSE
       /\ isSeatModalOpen = FALSE
       /\ showDialog = FALSE
       /\ updates = <<>>
       /\ chat = ChatMounted
       /\ last = Step("mount", "", <<>>)

\* ------------------------------------------------------------ reservation load
\* The router hands the mounted page another link: a dependency of the load
\* effect changes, its cleanup cancels the run before and it runs again.
Navigate(rid, loc) ==
  /\ \/ rid # reservationId
     \/ preloadedReservation(rid, loc) # preloadedReservation(reservationId, locationReservation)
  /\ rid # "" => Len(loads) < MaxLoads
  /\ reservationId' = rid
  /\ locationReservation' = loc
  /\ Commit(LoadEffect(PageState, rid, loc, refreshCount),
            isSyncingSeats, isSeatModalOpen, showDialog)
  /\ last' = Step("navigate", rid, <<>>)
  /\ UNCHANGED <<refreshCount, updates>>

\* handleRetry, from the "Try again" button of the error view
handleRetry ==
  /\ ~loading /\ error # ""
  /\ refreshCount < MaxRefresh
  /\ reservationId # "" => Len(loads) < MaxLoads
  /\ refreshCount' = refreshCount + 1
  /\ Commit(LoadEffect(PageState, reservationId, locationReservation, refreshCount + 1),
            isSyncingSeats, isSeatModalOpen, showDialog)
  /\ last' = Step("retry", reservationId, <<>>)
  /\ UNCHANGED <<reservationId, locationReservation, updates>>

\* mutant: the loading flag is cleared on the success path only
loadReservationLoadingStuckOnFailure(st, cancelled, out) ==
  IF cancelled THEN st
  ELSE IF out.ok
  THEN [st EXCEPT !.reservation = out.reservation,
                  !.error = "",
                  !.seatMap = SeatMapOf(out.reservation),
                  !.selectedSeats = SeatsOf(out.reservation),
                  !.seatSelectionUpdatedAt = UpdatedAtOf(out.reservation),
                  !.seatSyncError = "",
                  !.loading = FALSE]
  ELSE [st EXCEPT !.error = out.message,
                  !.reservation = NullReservation,
                  !.seatMap = NullSeatMap,
                  !.selectedSeats = <<>>,
                  !.seatSelectionUpdatedAt = ""]

\* mutant: a failed load is tried again at once
loadReservationAutoRetry(st, cancelled, out) ==
  IF cancelled THEN st
  ELSE IF out.ok
  THEN [st EXCEPT !.reservation = out.reservation,
                  !.error = "",
                  !.seatMap = SeatMapOf(out.reservation),
                  !.selectedSeats = SeatsOf(out.reservation),
                  !.seatSelectionUpdatedAt = UpdatedAtOf(out.reservation),
                  !.seatSyncError = "",
                  !.loading = FALSE]
  ELSE [st EXCEPT !.error = out.message,
                  !.reservation = NullReservation,
                  !.seatMap = NullSeatMap,
                  !.selectedSeats = <<>>,
                  !.seatSelectionUpdatedAt = "",
                  !.loading = FALSE,
                  !.loads = Append(@, [rid |-> reservationId, cancelled |-> FALSE,
                                       superseded |-> FALSE])]

\* mutant: a failed load keeps the reservation that was displayed
loadReservationKeepsStale(st, cancelled, out) ==
  IF cancelled THEN st
  ELSE IF out.ok
  THEN [st EXCEPT !.reservation = out.reservation,
                  !.error = "",
                  !.seatMap = SeatMapOf(out.reservation),
                  !.selectedSeats = SeatsOf(out.reservation),
                  !.seatSelectionUpdatedAt = UpdatedAtOf(out.reservation),
                  !.seatSyncError = "",
                  !.loading = FALSE]
  ELSE [st EXCEPT !.error = out.message,
                  !.loading = FALSE]

\* mutant: the result of a cancelled load is applied like any other
loadReservationIgnoringCancelled(st, cancelled, out) ==
  IF out.ok
  THEN [st EXCEPT !.reservation = out.reservation,
                  !.error = "",
                  !.seatMap = SeatMapOf(out.reservation),
                  !.selectedSeats = SeatsOf(out.reservation),
                  !.seatSelectionUpdatedAt = UpdatedAtOf(out.reservation),
                  !.seatSyncError = "",
                  !.loading = FALSE]
  ELSE [st EXCEPT !.error = out.message,
                  !.reservation = NullReservation,
                  !.seatMap = NullSeatMap,
                  !.selectedSeats = <<>>,
                  !.seatSelectionUpdatedAt = "",
                  !.loading = FALSE]

\* the page state once loadReservation has handled outcome out of a fetch
\* whose effect run has the flag cancelled
loadReservation(st, cancelled, out) ==
  IF cancelled THEN st
  ELSE IF out.ok
  THEN [st EXCEPT !.reservation = out.reservation,
                  !.error = "",
                  !.seatMap = SeatMapOf(out.reservation),
                  !.selectedSeats = SeatsOf(out.reservation),
                  !.seatSelectionUpdatedAt = UpdatedAtOf(out.reservation),
                  !.seatSyncError = "",
                  !.loading = FALSE]
  ELSE [st EXCEPT !.error = out.message,
                  !.reservation = NullReservation,
                  !.seatMap = NullSeatMap,
                  !.selectedSeats = <<>>,
                  !.seatSelectionUpdatedAt = "",
                  !.loading = FALSE]

\* history: the outcome of a fetch whose continuation does not look at it
NoOutcome ==
  [ok |-> FALSE, reservation |-> NullReservation, message |-> NullStr, code |-> NullStr]

\* The fetch of the i-th outstanding load comes back with resp.
LoadSettles(i, resp) ==
  LET out == fetchReservationById(loads[i].rid, resp)
      st == loadReservation([PageState EXCEPT !.loads = RemoveAt(loads, i)],
                            loads[i].cancelled, out)
  IN /\ Commit(st, isSyncingSeats, isSeatModalOpen, showDialog)
     /\ last' = [op |-> IF out.ok THEN "loadOk" ELSE "loadFailed",
                 tag |-> IF loads[i].superseded THEN "superseded"
                         ELSE IF loads[i].cancelled THEN "cancelled" ELSE "current",
                 arg |-> <<>>,
                 out |-> IF loads[i].cancelled THEN NoOutcome ELSE out]
     /\ UNCHANGED <<reservationId, locationReservation, refreshCount, updates>>

\* ------------------------------------------------------------------ seat modal
canOpenSeatMap == ~seatMap.isNull

\* the "Select seat" button of the reservation view
handleOpenSeatModal ==
  /\ ~loading /\ error = "" /\ ~reservation.isNull
  /\ canOpenSeatMap
  /\ Commit([PageState EXCEPT !.seatSyncError = ""], isSyncingSeats, TRUE, showDialog)
  /\ last' = Step("openModal", "", <<>>)
  /\ UNCHANGED <<reservationId, locationReservation, refreshCount, updates>>

\* the close button, the backdrop or the Escape key
handleCloseSeatModal ==
  /\ isSeatModalOpen
  /\ Commit(PageState, isSyncingSeats, FALSE, showDialog)
  /\ last' = Step("closeModal", "", <<>>)
  /\ UNCHANGED <<reservationId, locationReservation, refreshCount, updates>>

\* ---------------------------------------------------------------- toggleSeat
\* mutant: the message does not agree in number with the limit
LimitMessageAlwaysPlural(n) == "You can select up to " \o ToString(n) \o " seats."

\* `You can select up to ${maxSelectable} seat${maxSelectable === 1 ? '' : 's'}.`
LimitMessage(n) ==
  "You can select up to " \o ToString(n) \o " seat" \o (IF n = 1 THEN "" ELSE "s") \o "."

\* mutant: the limit test lets one seat too many through
AtLimitOffByOne(prev, maxSelectable) == Len(prev) > maxSelectable

\* prev.length >= maxSelectable
AtLimit(prev, maxSelectable) == Len(prev) >= maxSelectable

\* mutant: the toggle does not look at the syncing flag
handleSeatToggleWhileSyncing(seatId) ==
  LET unchanged == [selectedSeats |-> selectedSeats, seatSyncError |-> seatSyncError,
                    tag |-> "ignored"]
      normalized == NormalizeSeatId(seatId)
  IN IF reservation.isNull \/ seatId = <<>> THEN unchanged
     ELSE IF normalized = <<>> THEN unchanged
     ELSE IF Includes(selectedSeats, normalized)
     THEN [selectedSeats |-> Without(selectedSeats, normalized), seatSyncError |-> "",
           tag |-> "removed"]
     ELSE IF AtLimit(selectedSeats, MaxSelectable(reservation))
     THEN [selectedSeats |-> selectedSeats,
           seatSyncError |-> LimitMessage(MaxSelectable(reservation)),
           tag |-> "limit"]
     ELSE [selectedSeats |-> Append(selectedSeats, normalized), seatSyncError |-> "",
           tag |-> "added"]

\* mutant: the limit is tested before the seat is looked up in the selection
handleSeatToggleLimitFirst(seatId) ==
  LET unchanged == [selectedSeats |-> selectedSeats, seatSyncError |-> seatSyncError,
                    tag |-> "ignored"]
      normalized == NormalizeSeatId(seatId)
  IN IF reservation.isNull \/ seatId = <<>> \/ isSyncingSeats THEN unchanged
     ELSE IF normalized = <<>> THEN unchanged
     ELSE IF Len(selectedSeats) >= MaxSelectable(reservation)
     THEN [selectedSeats |-> selectedSeats,
           seatSyncError |-> LimitMessage(MaxSelectable(reservation)),
           tag |-> "limit"]
     ELSE IF Includes(selectedSeats, normalized)
     THEN [selectedSeats |-> Without(selectedSeats, normalized), seatSyncError |-> "",
           tag |-> "removed"]
     ELSE [selectedSeats |-> Append(selectedSeats, normalized), seatSyncError |-> "",
           tag |-> "added"]

\* the updater handleSeatToggle hands to setSelectedSeats, applied to the
\* selection prev: the selection and the seat error it leaves, and which
\* branch it took
SeatToggleUpdater(prev, maxSelectable, normalized) ==
  IF Includes(prev, normalized)
  THEN [selectedSeats |-> Without(prev, normalized), seatSyncError |-> "",
        tag |-> "removed"]
  ELSE IF AtLimit(prev, maxSelectable)
  THEN [selectedSeats |-> prev,
        seatSyncError |-> LimitMessage(maxSelectable),
        tag |-> "limit"]
  ELSE [selectedSeats |-> Append(prev, normalized), seatSyncError |-> "",
        tag |-> "added"]

\* handleSeatToggle(seatId): the selection and the seat error it leaves, and
\* which branch it took
handleSeatToggle(seatId) ==
  LET unchanged == [selectedSeats |-> selectedSeats, seatSyncError |-> seatSyncError,
                    tag |-> "ignored"]
      normalized == NormalizeSeatId(seatId)
  IN IF reservation.isNull \/ seatId = <<>> \/ isSyncingSeats THEN unchanged
     ELSE IF normalized = <<>> THEN unchanged
     ELSE SeatToggleUpdater(selectedSeats, MaxSelectable(reservation), normalized)

\* the seat identifiers a caller of onSeatToggle passes
ToggleInputs ==
  { <<"1", "a">>, <<" ", "1", "b", " ">>, <<"1", "C">>, <<" ">> }

\* mutant: a toggle that changes the selection saves it at once
ToggleSeatAndSave(seatId) ==
  LET r == handleSeatToggle(seatId)
      saves == r.tag \in {"added", "removed"} /\ updates = <<>>
  IN /\ WidgetMounted(loading, error, reservation, isSeatModalOpen, seatMap)
     /\ Commit([PageState EXCEPT !.selectedSeats = r.selectedSeats,
                                 !.seatSyncError = r.seatSyncError],
               isSyncingSeats \/ saves, isSeatModalOpen, showDialog)
     /\ updates' =
          IF saves
          THEN << [reservationId |-> reservationId,
                   body |-> UpdateRequestBody(r.selectedSeats),
                   previousServerSeats |-> SeatsOf(reservation),
                   input |-> r.selectedSeats,
                   heldAtCall |-> reservation,
                   selectedAtCall |-> selectedSeats] >>
          ELSE updates
     /\ last' = Step("toggle", r.tag, seatId)
     /\ UNCHANGED <<reservationId, locationReservation, refreshCount>>

\* onSeatToggle(seatId)
ToggleSeat(seatId) ==
  LET r == handleSeatToggle(seatId)
  IN /\ WidgetMounted(loading, error, reservation, isSeatModalOpen, seatMap)
     /\ Commit([PageState EXCEPT !.selectedSeats = r.selectedSeats,
                                 !.seatSyncError = r.seatSyncError],
               isSyncingSeats, isSeatModalOpen, showDialog)
     /\ last' = Step("toggle", r.tag, seatId)
     /\ UNCHANGED <<reservationId, locationReservation, refreshCount, updates>>

\* SeatMap.jsx: new Set(selectedSeats.map((seat) => seat.toUpperCase()))
selectedSeatIds == {toUpperCase(selectedSeats[i]) : i \in 1..Len(selectedSeats)}

\* SeatMap.jsx: Array.from(selectedSeatIds.values()).sort()
sortedSelected ==
  SortSeats(Dedupe([i \in 1..Len(selectedSeats) |-> toUpperCase(selectedSeats[i])]))

\* mutant: the click handler does not look at the status of the seat
ClickPassesAnyStatus(seat) == ~isSyncingSeats

\* SeatMap.jsx handleSeatClick(seat): does the click reach onSeatToggle
ClickPasses(seat) ==
  /\ ~isSyncingSeats
  /\ ~(seat.status # "available" /\ toUpperCase(seat.id) \notin selectedSeatIds)

\* a click on the i-th seat of the seat map shown in the widget
SeatClick(i) ==
  LET seat == seatMap.seats[i]
      r == handleSeatToggle(toUpperCase(seat.id))
  IN /\ WidgetMounted(loading, error, reservation, isSeatModalOpen, seatMap)
     /\ IF ClickPasses(seat)
        THEN /\ Commit([PageState EXCEPT !.selectedSeats = r.selectedSeats,
                                         !.seatSyncError = r.seatSyncError],
                       isSyncingSeats, isSeatModalOpen, showDialog)
             /\ last' = Step("click", r.tag, seat.id)
        ELSE /\ Commit(PageState, isSyncingSeats, isSeatModalOpen, showDialog)
             /\ last' = Step("click", "blocked", seat.id)
     /\ UNCHANGED <<reservationId, locationReservation, refreshCount, updates>>

\* ----------------------------------------------------------- confirmSelection
\* mutant: the list is not cut to the limit
TrimmedSeatsNoSlice(seatIds) == IF seatIds.arr THEN seatIds.items ELSE selectedSeats

\* handleSeatConfirm up to its await: trimmedSeats of the call
TrimmedSeats(seatIds) ==
  LET seatsToPersist == IF seatIds.arr THEN seatIds.items ELSE selectedSeats
      maxSelectable == MaxSelectable(reservation)
  IN IF Len(seatsToPersist) > maxSelectable
     THEN Slice(seatsToPersist, maxSelectable)
     ELSE seatsToPersist

\* the request handleSeatConfirm(seatIds) issues, with what its closure holds
\* for the continuation (previousServerSeats) and, as history, the argument,
\* the reservation held and the selection at the time of the call
UpdateRequest(seatIds) ==
  [reservationId |-> reservationId,
   body |-> UpdateRequestBody(TrimmedSeats(seatIds)),
   previousServerSeats |-> SeatsOf(reservation),
   input |-> IF seatIds.arr THEN seatIds.items ELSE selectedSeats,
   heldAtCall |-> reservation,
   selectedAtCall |-> selectedSeats]

\* handleSeatConfirm(seatIds) called `calls` times by one event, every call
\* reading the state of the render the handler belongs to; dialog is what
\* the caller leaves of the widget's dialog
SeatConfirm(seatIds, calls, dialog, op) ==
  IF reservationId = "" \/ reservation.isNull
  THEN /\ Commit([PageState EXCEPT !.seatSyncError =
                    "Reservation information is required before selecting seats."],
                 isSyncingSeats, isSeatModalOpen, dialog)
       /\ last' = Step(op, "noReservation", <<>>)
       /\ UNCHANGED updates
  ELSE IF isSyncingSeats
  THEN /\ Commit(PageState, isSyncingSeats, isSeatModalOpen, dialog)
       /\ last' = Step(op, "ignored", <<>>)
       /\ UNCHANGED updates
  ELSE /\ Commit([PageState EXCEPT !.seatSyncError = ""], TRUE, isSeatModalOpen, dialog)
       /\ updates' = updates \o [k \in 1..calls |-> UpdateRequest(seatIds)]
       /\ last' = Step(op, "sent", <<>>)

\* the lists a caller of onConfirmSelection passes (NotArray: no list)
ConfirmInputs ==
  { NotArray,
    Arr(<< <<"1", "A">>, <<"1", "A">>, <<"1", "b">> >>) }

\* onConfirmSelection(seatIds)
ConfirmSelection(seatIds) ==
  /\ WidgetMounted(loading, error, reservation, isSeatModalOpen, seatMap)
  /\ SeatConfirm(seatIds, 1, showDialog, "confirm")
  /\ UNCHANGED <<reservationId, locationReservation, refreshCount>>

\* SeatMap.jsx handleConfirm: the "Confirm selection" button of the widget
handleConfirm ==
  /\ WidgetMounted(loading, error, reservation, isSeatModalOpen, seatMap)
  /\ ~(isSyncingSeats \/ sortedSelected = <<>>)
  /\ Commit(PageState, isSyncingSeats, isSeatModalOpen, TRUE)
  /\ last' = Step("openDialog", "", <<>>)
  /\ UNCHANGED <<reservationId, locationReservation, refreshCount, updates>>

\* SeatMap.jsx: the Cancel button of the confirmation dialog
CancelDialog ==
  /\ showDialog
  /\ ~isSyncingSeats
  /\ Commit(PageState, isSyncingSeats, isSeatModalOpen, FALSE)
  /\ last' = Step("cancelDialog", "", <<>>)
  /\ UNCHANGED <<reservationId, locationReservation, refreshCount, updates>>

\* mutant: the "Confirm seats" button is disabled only while syncing
ConfirmSeatsDisabledWhileSyncingOnly == isSyncingSeats

\* SeatMap.jsx SeatConfirmationDialog: disabled={!selectedSeatIds.length || isSyncing}
ConfirmSeatsDisabled == sortedSelected = <<>> \/ isSyncingSeats

\* SeatMap.jsx handleConfirmDialog: the "Confirm seats" button of the dialog
handleConfirmDialog ==
  /\ showDialog
  /\ ~ConfirmSeatsDisabled
  /\ SeatConfirm(Arr(sortedSelected), 1, FALSE, "confirmDialog")
  /\ UNCHANGED <<reservationId, locationReservation, refreshCount>>

\* mutant: the seat error after a failed update is always the generic text
SeatErrorMessageGenericOnly(out) ==
  "We could not save your seat selection. Please try again."

\* err?.message ?? 'We could not save your seat selection. Please try again.'
SeatErrorMessage(out) ==
  IF out.message # NullStr THEN out.message
  ELSE "We could not save your seat selection. Please try again."

\* mutant: a successful update keeps the seat map that was shown
SeatConfirmSettledKeepsSeatMap(st, u, out) ==
  IF out.ok
  THEN [st EXCEPT !.reservation = out.reservation,
                  !.selectedSeats = SeatsOf(out.reservation),
                  !.seatSelectionUpdatedAt = UpdatedAtOf(out.reservation),
                  !.seatSyncError = ""]
  ELSE [st EXCEPT !.seatSyncError = out.message,
                  !.selectedSeats = u.previousServerSeats]

\* mutant: a failed update leaves the local selection as it is
SeatConfirmSettledNoRollback(st, u, out) ==
  IF out.ok
  THEN [st EXCEPT !.reservation = out.reservation,
                  !.seatMap = SeatMapOf(out.reservation),
                  !.selectedSeats = SeatsOf(out.reservation),
                  !.seatSelectionUpdatedAt = UpdatedAtOf(out.reservation),
                  !.seatSyncError = ""]
  ELSE [st EXCEPT !.seatSyncError = out.message]

\* mutant: a successful update keeps the list that was submitted
SeatConfirmSettledKeepsSubmitted(st, u, out) ==
  IF out.ok
  THEN [st EXCEPT !.reservation = out.reservation,
                  !.seatMap = SeatMapOf(out.reservation),
                  !.selectedSeats = u.body,
                  !.seatSelectionUpdatedAt = UpdatedAtOf(out.reservation),
                  !.seatSyncError = ""]
  ELSE [st EXCEPT !.seatSyncError = out.message,
                  !.selectedSeats = u.previousServerSeats]

\* the page state once handleSeatConfirm has handled outcome out of the
\* update request u
SeatConfirmSettled(st, u, out) ==
  IF out.ok
  THEN [st EXCEPT !.reservation = out.reservation,
                  !.seatMap = SeatMapOf(out.reservation),
                  !.selectedSeats = SeatsOf(out.reservation),
                  !.seatSelectionUpdatedAt = UpdatedAtOf(out.reservation),
                  !.seatSyncError = ""]
  ELSE [st EXCEPT !.seatSyncError = SeatErrorMessage(out),
                  !.selectedSeats = u.previousServerSeats]

\* mutant: the syncing flag is cleared on the success path only
SyncingAfterSettleOnSuccessOnly(out) == ~out.ok

\* finally { setIsSyncingSeats(false) }
SyncingAfterSettle(out) == FALSE

\* The i-th outstanding seat update comes back with resp.
UpdateSettles(i, resp) ==
  LET u == updates[i]
      out == updateReservationSeatSelection(u.reservationId, resp)
  IN /\ Commit(SeatConfirmSettled(PageState, u, out), SyncingAfterSettle(out),
               IF out.ok THEN FALSE ELSE isSeatModalOpen, showDialog)
     /\ updates' = RemoveAt(updates, i)
     /\ last' = [op |-> IF out.ok THEN "updateOk" ELSE "updateFailed",
                 tag |-> "", arg |-> <<>>, out |-> out, request |-> u]
     /\ UNCHANGED <<reservationId, locationReservation, refreshCount>>

\* ------------------------------------------------------------- specification
Next ==
  \/ \E rid \in ReservationIds : \E loc \in FollowedLinkReservations(rid) : Navigate(rid, loc)
  \/ handleRetry
  \/ \E i \in 1..Len(loads) : \E resp \in SuccessResponses \cup FailureResponses :
       LoadSettles(i, resp)
  \/ handleOpenSeatModal
  \/ handleCloseSeatModal
  \/ \E seatId \in ToggleInputs : ToggleSeat(seatId)
  \/ \E i \in 1..Len(seatMap.seats) : SeatClick(i)
  \/ \E seatIds \in ConfirmInputs : ConfirmSelection(seatIds)
  \/ handleConfirm
  \/ CancelDialog
  \/ handleConfirmDialog
  \/ \E i \in 1..Len(updates) : \E resp \in SuccessResponses \cup FailureResponses :
       UpdateSettles(i, resp)

Spec == Init /\ [][Next]_vars

TypeOK ==
  /\ reservationId \in ReservationIds
  /\ loading \in BOOLEAN /\ isSyncingSeats \in BOOLEAN
  /\ isSeatModalOpen \in BOOLEAN /\ showDialog \in BOOLEAN
  /\ refreshCount \in 0..MaxRefresh
  /\ Len(loads) <= MaxLoads

\* One event calls onConfirmSelection twice in direct succession: both calls
\* run handleSeatConfirm of the same render, so both read the isSyncingSeats
\* of that render.
ConfirmInSuccession(seatIds) ==
  /\ WidgetMounted(loading, error, reservation, isSeatModalOpen, seatMap)
  /\ Len(updates) + 2 <= MaxUpdates
  /\ SeatConfirm(seatIds, 2, showDialog, "confirmTwice")
  /\ UNCHANGED <<reservationId, locationReservation, refreshCount>>

\* The steps around such an event: the modal is opened or closed, the
\* confirmation is called twice, requests settle.  Every behaviour of these
\* steps is a behaviour of the page.
NextSameRender ==
  \/ handleOpenSeatModal
  \/ handleCloseSeatModal
  \/ \E seatIds \in ConfirmInputs : ConfirmInSuccession(seatIds)
  \/ \E i \in 1..Len(loads) : \E resp \in SuccessResponses \cup FailureResponses :
       LoadSettles(i, resp)
  \/ \E i \in 1..Len(updates) : \E resp \in SuccessResponses \cup FailureResponses :
       UpdateSettles(i, resp)

SpecSameRender == Init /\ [][NextSameRender]_vars

\* ----------------------------------------------------------------- properties
\* max(1, passengerCount) of the reservation r
Limit(r) == Max(1, passengerCount(r))

IsPrefix(s, t) == Len(s) <= Len(t) /\ s = SubSeq(t, 1, Len(s))

ToggleOps == {"toggle", "click"}

\* the status the seat map in state reports for the seat with identifier id
StatusOf(id) ==
  LET hits == {i \in 1..Len(seatMap.seats) : seatMap.seats[i].id = id}
  IN IF hits = {} THEN "none" ELSE seatMap.seats[CHOOSE i \in hits : TRUE].status

\* C1: in every reachable state SelectedSeats has at most max(1, passengerCount)
\* entries, passengerCount being that of the reservation held.
C1_SelectionWithinLimit == Len(selectedSeats) <= Limit(reservation)

\* C2: a toggle never takes |SelectedSeats| from a value within
\* max(1, passengerCount) to a value above it, and never makes a selection
\* that is at or above the limit longer.
C2_ToggleNeverExceedsLimit ==
  [][ last'.op \in ToggleOps =>
        /\ Len(selectedSeats) <= Limit(reservation)
             => Len(selectedSeats') <= Limit(reservation)
        /\ Len(selectedSeats) >= Limit(reservation)
             => Len(selectedSeats') <= Len(selectedSeats) ]_vars

C2_Witness ==
  /\ last.op = "toggle" /\ last.tag = "limit"
  /\ Len(selectedSeats) = Limit(reservation)
  /\ NormalizeSeatId(last.arg) \notin Range(selectedSeats)

\* C3 (as claimed): after a rejected update SelectedSeats is what it was just
\* before confirmSelection was called, and the seat error is not empty.
C3_RollbackToSelectionBeforeCall ==
  last.op = "updateFailed" =>
    /\ selectedSeats = last.request.selectedAtCall
    /\ seatSyncError # ""

\* C3 (amended): after a rejected update SelectedSeats is the confirmed seat
\* list of the reservation that was held when confirmSelection was called,
\* and the seat error is the message of the failure.
C3_RollbackToConfirmedSeatsAtCall ==
  last.op = "updateFailed" =>
    /\ selectedSeats = SeatsOf(last.request.heldAtCall)
    /\ seatSyncError = last.out.message
    /\ ~last.out.ok

C3_Witness ==
  /\ last.op = "updateFailed"
  /\ last.request.selectedAtCall # SeatsOf(last.request.heldAtCall)
  /\ selectedSeats = SeatsOf(last.request.heldAtCall)
  /\ seatSyncError # ""

\* C4: after a rejected update SelectedSeats is the confirmed seat list of the
\* reservation held in state (the last known SeatSelectionRecord).
C4_RollbackToHeldRecord ==
  last.op = "updateFailed" => selectedSeats = SeatsOf(reservation)

\* C5: after a successful update SelectedSeats is exactly the selection of the
\* reservation the gateway returned, and the reservation, the seat map and the
\* last-updated timestamp are those of that reservation.
C5_SuccessAdoptsReturnedReservation ==
  last.op = "updateOk" =>
    /\ last.out.ok
    /\ selectedSeats = last.out.reservation.seatSelection.selectedSeats
    /\ reservation = last.out.reservation
    /\ seatMap = last.out.reservation.seatMap
    /\ seatSelectionUpdatedAt =
         (IF last.out.reservation.seatSelection.updatedAt = NullStr THEN ""
          ELSE last.out.reservation.seatSelection.updatedAt)

C5_Witness ==
  /\ last.op = "updateOk"
  /\ last.request.body # <<>>
  /\ selectedSeats # last.request.body
  /\ selectedSeats = last.out.reservation.seatSelection.selectedSeats

\* C6 (as claimed): for an input longer than max(1, P) the list sent is the
\* first max(1, P) entries of the normalized, deduplicated input.
C6_SendsPrefixOfDedupedInput ==
  \A i \in 1..Len(updates) :
    LET u == updates[i]
    IN Len(u.input) > Limit(u.heldAtCall) =>
         u.body = Slice(NormalizeSeatList(u.input), Limit(u.heldAtCall))

\* C6 (amended): for an input longer than max(1, P) the list sent is the
\* normalized, deduplicated form of the first max(1, P) entries of the input:
\* a prefix of the normalized, deduplicated input with at most max(1, P)
\* entries, shorter than that when the cut-off entries repeat.
C6_SendsDedupedPrefixOfInput ==
  \A i \in 1..Len(updates) :
    LET u == updates[i]
    IN Len(u.input) > Limit(u.heldAtCall) =>
         /\ u.body = NormalizeSeatList(Slice(u.input, Limit(u.heldAtCall)))
         /\ IsPrefix(u.body, NormalizeSeatList(u.input))
         /\ Len(u.body) <= Limit(u.heldAtCall)

C6_Witness ==
  \E i \in 1..Len(updates) :
    /\ Len(updates[i].input) > Limit(updates[i].heldAtCall)
    /\ Limit(updates[i].heldAtCall) = 2
    /\ updates[i].body = << <<"1", "A">> >>

\* C7: at most one seat-update request is outstanding at any time.
C7_AtMostOneUpdateInFlight == Len(updates) <= 1

\* C8: the result of a load that a newer load has superseded changes neither
\* the reservation, the seat map, SelectedSeats, the page error nor the
\* loading flag.
C8_SupersededLoadChangesNothing ==
  [][ (last'.op \in {"loadOk", "loadFailed"} /\ last'.tag = "superseded") =>
        UNCHANGED <<reservation, seatMap, selectedSeats, seatSelectionUpdatedAt,
                    error, loading>> ]_vars

C8_Witness ==
  /\ last.op = "loadOk" /\ last.tag = "superseded"
  /\ loading
  /\ \E i \in 1..Len(loads) : ~loads[i].cancelled

\* C9: with a reservation loaded and no sync in progress, toggling a seat that
\* is in SelectedSeats removes it, whatever its status in the seat map and
\* whether or not the limit is reached.
C9_ToggleRemovesSelectedSeat ==
  [][ ( /\ last'.op \in ToggleOps
        /\ ~reservation.isNull /\ ~isSyncingSeats
        /\ NormalizeSeatId(last'.arg) \in Range(selectedSeats) ) =>
        /\ NormalizeSeatId(last'.arg) \notin Range(selectedSeats')
        /\ Range(selectedSeats') = Range(selectedSeats) \ {NormalizeSeatId(last'.arg)} ]_vars

C9_Witness ==
  /\ last.op = "click" /\ last.tag = "removed"
  /\ StatusOf(last.arg) \in {"booked", "held", "pending"}
  /\ Len(selectedSeats) >= Limit(reservation)
  /\ NormalizeSeatId(last.arg) \notin Range(selectedSeats)

\* C10: a click on a seat that is not available and not in SelectedSeats does
\* not bring it into SelectedSeats; a click on a seat that is not available
\* but in SelectedSeats is passed on to the toggle (no sync being in progress).
C10_UnavailableSeatNotNewlySelected ==
  [][ (last'.op = "click" /\ StatusOf(last'.arg) # "available") =>
        /\ NormalizeSeatId(last'.arg) \notin Range(selectedSeats)
             => /\ NormalizeSeatId(last'.arg) \notin Range(selectedSeats')
                /\ last'.tag = "blocked"
        /\ (NormalizeSeatId(last'.arg) \in Range(selectedSeats) /\ ~isSyncingSeats)
             => last'.tag = "removed" ]_vars

C10_Witness ==
  /\ last.op = "click" /\ last.tag = "blocked"
  /\ ~isSyncingSeats
  /\ StatusOf(last.arg) \in {"booked", "held", "pending"}
  /\ NormalizeSeatId(last.arg) \notin Range(selectedSeats)
  /\ Len(selectedSeats) < Limit(reservation)

\* the text the limit message has for the limit n
LimitText(n) ==
  IF n = 1 THEN "You can select up to 1 seat."
  ELSE "You can select up to " \o ToString(n) \o " seats."

\* C11: with a reservation loaded and no sync in progress, a toggle of a seat
\* that is not in SelectedSeats while |SelectedSeats| >= N = max(1,
\* passengerCount) leaves SelectedSeats as it is and sets the seat error to
\* "You can select up to N seats." ("... 1 seat." for N = 1).
C11_ToggleAtLimitRejected ==
  [][ ( /\ last'.op \in ToggleOps /\ last'.tag # "blocked"
        /\ ~reservation.isNull /\ ~isSyncingSeats
        /\ NormalizeSeatId(last'.arg) # <<>>
        /\ NormalizeSeatId(last'.arg) \notin Range(selectedSeats)
        /\ Len(selectedSeats) >= Limit(reservation) ) =>
        /\ selectedSeats' = selectedSeats
        /\ seatSyncError' = LimitText(Limit(reservation)) ]_vars

C11_Witness ==
  /\ last.op = "toggle" /\ last.tag = "limit"
  /\ Limit(reservation) = 2
  /\ selectedSeats = << <<"1", "A">>, <<"1", "B">> >>
  /\ seatSyncError = "You can select up to 2 seats."

\* the message a failed fetch carries when the response gives none
FetchGenericMessages ==
  { "Unable to load the reservation details right now.",
    "We could not find a reservation with that ID." }

\* C12: after the failure of a load that is not superseded has been handled,
\* the reservation and the seat map are null, SelectedSeats and the
\* last-updated timestamp are empty and the page error is the message of the
\* failure, which is never missing.
C12_FailedLoadClearsState ==
  (last.op = "loadFailed" /\ last.tag = "current") =>
    /\ reservation.isNull
    /\ seatMap.isNull
    /\ selectedSeats = <<>>
    /\ seatSelectionUpdatedAt = ""
    /\ ~last.out.ok
    /\ last.out.message # NullStr
    /\ error = last.out.message

C12_Witness ==
  /\ last.op = "loadFailed" /\ last.tag = "current"
  /\ ~locationReservation.isNull
  /\ refreshCount = 0
  /\ reservation.isNull /\ selectedSeats = <<>>
  /\ error \in FetchGenericMessages

\* everything the page and the widget hold, the outstanding requests included
PageAndRequests ==
  <<reservationId, locationReservation, reservation, loading, error, refreshCount,
    seatMap, selectedSeats, seatSelectionUpdatedAt, seatSyncError, isSyncingSeats,
    isSeatModalOpen, showDialog, loads, updates>>

\* C13: while a seat sync is in progress a toggle changes nothing at all
\* (SelectedSeats, the seat error and everything else the page holds stay as
\* they are, so nothing is kept for later), and what SelectedSeats becomes
\* when the sync completes is decided by the request and its outcome alone.
C13_ToggleWhileSyncingIsNoOp ==
  [][ /\ (last'.op \in ToggleOps /\ isSyncingSeats) => UNCHANGED PageAndRequests
      /\ last'.op = "updateOk" =>
            selectedSeats' = SeatsOf(last'.out.reservation)
      /\ last'.op = "updateFailed" =>
            selectedSeats' = last'.request.previousServerSeats ]_vars

C13_Witness ==
  /\ last.op = "toggle" /\ last.tag = "ignored"
  /\ isSyncingSeats /\ Len(updates) = 1
  /\ NormalizeSeatId(last.arg) # <<>>
  /\ NormalizeSeatId(last.arg) \notin Range(selectedSeats)
  /\ Len(selectedSeats) < Limit(reservation)

UpdateSettledOps == {"updateOk", "updateFailed"}

\* C14: once the update request of a confirmation has settled, with success
\* or with failure, the syncing flag is false; the flag is never set while no
\* update request is outstanding.
C14_SyncingEndsWhenUpdateSettles ==
  /\ last.op \in UpdateSettledOps => ~isSyncingSeats
  /\ isSyncingSeats => Len(updates) >= 1

C14_Witness ==
  /\ last.op = "updateFailed"
  /\ ~isSyncingSeats
  /\ updates = <<>>
  /\ isSeatModalOpen

LoadSettledOps == {"loadOk", "loadFailed"}

\* the steps that start a fetch: a change of link, a press of "Try again"
LoadStartingOps == {"navigate", "retry"}

\* the steps that call confirmSelection
ConfirmOps == {"confirm", "confirmDialog", "confirmTwice"}

\* the requests that are outstanding after the step are those outstanding
\* before it, one of them having settled
OneSettled(before, after) ==
  \E i \in 1..Len(before) : after = RemoveAt(before, i)

\* C15: the step that handles a settled fetch or update, failed or not,
\* issues no request (the settled request is gone, the others are as they
\* were); a fetch is issued only by a change of reservation link or a retry,
\* an update only by a call of confirmSelection.
C15_NoRequestWithoutUserAction ==
  [][ /\ last'.op \in LoadSettledOps =>
            (OneSettled(loads, loads') /\ updates' = updates)
      /\ last'.op \in UpdateSettledOps =>
            (OneSettled(updates, updates') /\ loads' = loads)
      /\ last'.op \notin (LoadSettledOps \cup LoadStartingOps) => loads' = loads
      /\ last'.op \notin (UpdateSettledOps \cup ConfirmOps) => updates' = updates ]_vars

C15_Witness ==
  /\ last.op = "loadFailed" /\ last.tag = "current"
  /\ error # ""
  /\ loads = <<>> /\ updates = <<>>
  /\ refreshCount = 0

\* ------------------------------------------- responses with an empty message
\* a non-ok envelope whose message is the empty string
EmptyMessageFailure == DataFail("", NullStr)

ResponsesWithEmptyMessage ==
  SuccessResponses \cup FailureResponses \cup {EmptyMessageFailure}

\* The page with a server that may also answer with such an envelope: loads
\* and retries, the seat modal, confirmations and the requests settling.
NextEmptyMessage ==
  \/ handleRetry
  \/ \E i \in 1..Len(loads) : \E resp \in ResponsesWithEmptyMessage :
       LoadSettles(i, resp)
  \/ handleOpenSeatModal
  \/ handleCloseSeatModal
  \/ \E seatIds \in ConfirmInputs : ConfirmSelection(seatIds)
  \/ \E i \in 1..Len(updates) : \E resp \in ResponsesWithEmptyMessage :
       UpdateSettles(i, resp)

SpecEmptyMessage == Init /\ [][NextEmptyMessage]_vars

\* C16: once the rejection of a fetch that is not superseded has been handled
\* the page shows an error (the error string is not empty, which is what
\* offers "Try again") and is not loading; once the rejection of an update has
\* been handled the seat error is not empty and the page is not syncing.
C16_RejectionBecomesError ==
  /\ (last.op = "loadFailed" /\ last.tag = "current") =>
        (error # "" /\ ~loading)
  /\ last.op = "updateFailed" =>
        (seatSyncError # "" /\ ~isSyncingSeats)

\* C17: while the link carries no reservation id the page shows an error and
\* is not loading; no fetch and no update is ever outstanding for a missing
\* id; a confirmation without id or reservation sets the seat error; and
\* both gateway operations reject a missing id with RESERVATION_ID_REQUIRED
\* whatever the server would answer.
C17_MissingIdSurfacedAndNeverSent ==
  /\ reservationId = "" => (error # "" /\ ~loading)
  /\ \A i \in 1..Len(loads) : loads[i].rid # ""
  /\ \A i \in 1..Len(updates) : updates[i].reservationId # ""
  /\ (last.op \in ConfirmOps /\ last.tag = "noReservation") =>
        seatSyncError = "Reservation information is required before selecting seats."
  /\ \A resp \in SuccessResponses \cup FailureResponses :
        /\ ~fetchReservationById("", resp).ok
        /\ fetchReservationById("", resp).code = "RESERVATION_ID_REQUIRED"
        /\ ~updateReservationSeatSelection("", resp).ok
        /\ updateReservationSeatSelection("", resp).code = "RESERVATION_ID_REQUIRED"

\* C18: while the syncing flag is set the seat error message is empty.
C18_NoSeatErrorWhileSyncing == isSyncingSeats => seatSyncError = ""

\* C19: a toggle changes nothing but SelectedSeats and the seat error: the
\* reservation, the seat map, the last-updated timestamp, the syncing flag,
\* the loading flag, the page error and the outstanding requests (so no
\* request is issued) are as they were.
C19_ToggleChangesOnlySelectionAndError ==
  [][ last'.op \in ToggleOps =>
        UNCHANGED <<reservation, seatMap, seatSelectionUpdatedAt, isSyncingSeats,
                    loading, error, loads, updates, reservationId, refreshCount,
                    isSeatModalOpen>> ]_vars

C19_Witness ==
  /\ last.op \in ToggleOps /\ last.tag = "removed"
  /\ ~isSyncingSeats /\ updates = <<>>
  /\ Len(loads) = 1 /\ ~loads[1].cancelled
  /\ SeatsOf(reservation) # selectedSeats

\* trimmed, upper case, not empty
IsCanonical(s) ==
  /\ s # <<>>
  /\ Head(s) # " " /\ s[Len(s)] # " "
  /\ \A i \in 1..Len(s) : s[i] \notin {"a", "b", "c"}

\* C20: with a reservation loaded and no sync in progress, a toggle does what
\* a toggle of the canonical spelling of its identifier (trim + uppercase)
\* does in that state, so any two spellings that are equal after trim +
\* uppercase act alike; a seat it adds is the trimmed, upper-case identifier;
\* an identifier that is empty after trimming changes neither SelectedSeats
\* nor the seat error.
C20_ToggleNormalizesIdentifier ==
  [][ ( /\ last'.op \in ToggleOps /\ last'.tag # "blocked"
        /\ ~reservation.isNull /\ ~isSyncingSeats ) =>
        LET n == trim(toUpperCase(last'.arg))
            canonical == handleSeatToggle(n)
        IN /\ selectedSeats' = canonical.selectedSeats
           /\ seatSyncError' = canonical.seatSyncError
           /\ \A seat \in Range(selectedSeats') \ Range(selectedSeats) :
                seat = n /\ IsCanonical(seat)
           /\ n = <<>> => UNCHANGED <<selectedSeats, seatSyncError>> ]_vars

C20_Witness ==
  /\ last.op = "toggle" /\ last.tag = "added"
  /\ last.arg = <<" ", "1", "b", " ">>
  /\ selectedSeats[Len(selectedSeats)] = <<"1", "B">>

\* C21: in every reachable state the seat map is the seat map of the
\* reservation held (null when none is held) and the last-updated timestamp
\* is that of its seat-selection record; right after a successful load whose
\* result is applied (not cancelled by a newer load or by leaving the link)
\* and right after a successful update, the reservation held is the one the
\* gateway returned and SelectedSeats is the seat list of its record.
C21_DerivedSeatStateFollowsReservation ==
  /\ seatMap = SeatMapOf(reservation)
  /\ seatSelectionUpdatedAt = UpdatedAtOf(reservation)
  /\ ((last.op = "loadOk" /\ last.tag = "current") \/ last.op = "updateOk") =>
        /\ reservation = last.out.reservation
        /\ selectedSeats = SeatsOf(reservation)

C21_Witness ==
  /\ last.op = "updateOk"
  /\ last.request.selectedAtCall # SeatsOf(last.request.heldAtCall)
  /\ seatMap # last.request.heldAtCall.seatMap
  /\ seatMap = reservation.seatMap
  /\ selectedSeats = SeatsOf(reservation)
  /\ selectedSeats # last.request.selectedAtCall

\* C22: the step that handles a successful update leaves the seat modal
\* closed (the widget and its dialog with it) and the seat error empty; the
\* step that handles a failed update leaves the seat modal as it was (open if
\* it was open, and shown if it was shown) and sets the seat error to the
\* message of the failure; a failure without a message gives "We could not
\* save your seat selection. Please try again.".
C22_ModalAndErrorAfterConfirm ==
  [][ /\ last'.op = "updateOk" =>
            (~isSeatModalOpen' /\ ~showDialog' /\ seatSyncError' = "")
      /\ last'.op = "updateFailed" =>
            /\ isSeatModalOpen' = isSeatModalOpen
            /\ WidgetMounted(loading', error', reservation', isSeatModalOpen', seatMap')
                 = WidgetMounted(loading, error, reservation, isSeatModalOpen, seatMap)
            /\ last'.out.message # NullStr
            /\ seatSyncError' = last'.out.message
      /\ SeatErrorMessage(Rejected(NullStr, "SEAT_SELECTION_UPDATE_FAILED"))
            = "We could not save your seat selection. Please try again." ]_vars

C22_Witness ==
  /\ last.op = "updateFailed"
  /\ isSeatModalOpen
  /\ WidgetMounted(loading, error, reservation, isSeatModalOpen, seatMap)
  /\ seatSyncError = "Unable to update seat selection right now."

\* --------------------------------------------------- the gateway on its own
\* what a seat list can hold: spellings of one seat, a padded identifier, a
\* blank string and null
RawSeatIds ==
  { <<"1", "a">>, <<"1", "A">>, <<" ", "1", "b", " ">>, <<" ">>, NullSeat }

SeatLists == UNION { [1..n -> RawSeatIds] : n \in 0..MaxSeatListLen }

\* success envelopes over every seat_selection list, with and without the
\* camel-case list and the reservation's seat_assignments
GatewayShapes ==
  { [pc |-> 1, n |-> 1, sel |-> s, selCamel |-> c, upd |-> "t1", asg |-> a,
     asgUpd |-> "t0", map |-> CabinA] :
      s \in {NotArray} \cup {Arr(l) : l \in SeatLists},
      c \in {NotArray, Arr(<< <<"1", "b">>, <<"1", "B">> >>)},
      a \in {NotArray, Arr(<< <<" ", "1", "c">>, <<"1", "C">> >>)} }

\* non-ok envelopes and HTTP error responses with and without a message and
\* a code of the server, and a network call that is rejected
GatewayFailures ==
  { DataFail(m, c) : m \in {NullStr, "Seat 1A is taken."}, c \in {NullStr, "SEAT_TAKEN"} }
  \cup { HttpError(st, m, c) : st \in {404, 500}, m \in {NullStr, "Seat 1A is taken."},
                               c \in {NullStr, "SEAT_TAKEN"} }
  \cup { NetworkError }

\* everything of the page stays as it is while the gateway is called directly
PageUntouched ==
  UNCHANGED <<reservationId, locationReservation, reservation, loading, error,
              refreshCount, seatMap, selectedSeats, seatSelectionUpdatedAt,
              seatSyncError, isSyncingSeats, isSeatModalOpen, showDialog, loads,
              updates>>

\* the calls the gateway is given by a page that has just been mounted
FetchCalls ==
  IF last.op = "mount"
  THEN ReservationIds \X ({DataOk(sh) : sh \in GatewayShapes} \cup GatewayFailures)
  ELSE {}

UpdateCalls ==
  IF last.op = "mount"
  THEN ReservationIds \X SeatLists \X (SuccessResponses \cup GatewayFailures)
  ELSE {}

\* fetchReservationById(rid), the request coming back with resp
CallFetchReservation(rid, resp) ==
  /\ last' = [op |-> "fetch", tag |-> rid, arg |-> <<>>, resp |-> resp,
              out |-> fetchReservationById(rid, resp)]
  /\ PageUntouched
  /\ chat' = chat

\* updateReservationSeatSelection({reservationId: rid, seats}), the request
\* (sent unless rid is missing) coming back with resp
CallUpdateSeatSelection(rid, seats, resp) ==
  /\ last' = [op |-> "update", tag |-> rid, arg |-> <<>>, resp |-> resp,
              seats |-> seats, sent |-> rid # "",
              body |-> UpdateRequestBody(seats),
              out |-> updateReservationSeatSelection(rid, resp)]
  /\ PageUntouched
  /\ chat' = chat

\* one call of the gateway is followed from each mounted page
NextGateway ==
  \/ \E c \in FetchCalls : CallFetchReservation(c[1], c[2])
  \/ \E c \in UpdateCalls : CallUpdateSeatSelection(c[1], c[2], c[3])

SpecGateway == Init /\ [][NextGateway]_vars

GatewayOps == {"fetch", "update"}

\* the code the server put in its response (none when no response came)
ServerCode(resp) == IF resp.kind = "network" THEN NullStr ELSE resp.code

DefaultCode(op) ==
  IF op = "fetch" THEN "RESERVATION_FETCH_FAILED" ELSE "SEAT_SELECTION_UPDATE_FAILED"

\* C23: a gateway call returns a normalized reservation exactly when the
\* request was sent and came back with an envelope marked ok; in every other
\* outcome it fails with a message and a code, and when the request was sent
\* and the server supplied no code the code is RESERVATION_FETCH_FAILED (for
\* a fetch) or SEAT_SELECTION_UPDATE_FAILED (for an update).
C23_NormalizedOrTypedFailure ==
  last.op \in GatewayOps =>
    /\ last.out.ok <=> (last.tag # "" /\ last.resp.kind = "data" /\ last.resp.ok)
    /\ last.out.ok => ~last.out.reservation.isNull
    /\ ~last.out.ok =>
         /\ last.out.reservation.isNull
         /\ last.out.message # NullStr
         /\ last.out.code # NullStr
         /\ (last.tag # "" /\ ServerCode(last.resp) = NullStr) =>
               last.out.code = DefaultCode(last.op)

\* the list the normalization of an envelope of this shape starts from
SourceList(shape) ==
  IF shape.sel.arr THEN shape.sel.items
  ELSE IF shape.selCamel.arr THEN shape.selCamel.items
  ELSE IF shape.asg.arr THEN shape.asg.items
  ELSE <<>>

\* r is what is left of src: every entry trimmed, upper case and not empty,
\* none twice, the entries of src (null and blank ones aside) in the order of
\* their first occurrence, and normalizing r again gives r
IsNormalizedFrom(r, src) ==
  LET m == [i \in 1..Len(src) |->
              IF src[i] = NullSeat THEN <<>> ELSE trim(toUpperCase(src[i]))]
      First(x) == CHOOSE i \in 1..Len(m) : m[i] = x /\ \A j \in 1..(i - 1) : m[j] # x
  IN /\ \A i \in 1..Len(r) : IsCanonical(r[i]) /\ r[i] # NullSeat
     /\ \A i, j \in 1..Len(r) : i # j => r[i] # r[j]
     /\ Range(r) = Range(m) \ {<<>>}
     /\ \A i, j \in 1..Len(r) : i < j => First(r[i]) < First(r[j])
     /\ NormalizeSeatList(r) = r

\* C24: the seat list of every reservation the gateway returns, and the seat
\* list of every update request it sends, holds only trimmed, upper-case,
\* non-empty identifiers, none twice, in the order of first occurrence, and is
\* unchanged by normalizing it again; the list of a returned reservation
\* comes from the seat_selection list of the envelope when that is a list and
\* otherwise from the seat_assignments of the reservation.
C24_SeatListsNormalized ==
  /\ (last.op = "fetch" /\ last.out.ok) =>
        /\ IsNormalizedFrom(last.out.reservation.selectedSeats, SourceList(last.resp.shape))
        /\ last.out.reservation.seatSelection.selectedSeats
             = last.out.reservation.selectedSeats
  /\ (last.op = "update" /\ last.sent) => IsNormalizedFrom(last.body, last.seats)

C24_Witness ==
  /\ last.op = "fetch" /\ last.out.ok
  /\ ~last.resp.shape.sel.arr /\ ~last.resp.shape.selCamel.arr
  /\ last.resp.shape.asg.items = << <<" ", "1", "c">>, <<"1", "C">> >>
  /\ last.out.reservation.selectedSeats = << <<"1", "C">> >>

\* ------------------------------------------------ toggles in different orders
\* the page's selectedSeatChips: [...selectedSeats].sort()
selectedSeatChips == SortSeats(selectedSeats)

\* the seats a user toggles, as the callers of onSeatToggle spell them
ToggledSeats == { <<"1", "a">>, <<"1", "B">>, <<" ", "1", "c">> }

\* the orders in which distinct seats can be toggled
ToggleOrders ==
  { o \in UNION { [1..n -> ToggledSeats] : n \in 0..Cardinality(ToggledSeats) } :
      \A i, j \in 1..Len(o) : i # j => o[i] # o[j] }

\* two orders of toggling the same seats
OrderPairs ==
  { p \in ToggleOrders \X ToggleOrders : Range(p[1]) = Range(p[2]) /\ p[1] # p[2] }

\* handleSeatToggle called for the seats of order one after the other (a
\* reservation being loaded and no sync in progress), from the selection of
\* st: the selection and the seat error that result, and whether the limit
\* rejected one of them
RECURSIVE ToggleAll(_, _, _)
ToggleAll(st, maxSelectable, order) ==
  IF order = <<>> THEN st
  ELSE LET r == SeatToggleUpdater(st.selectedSeats, maxSelectable,
                                  NormalizeSeatId(Head(order)))
       IN ToggleAll([selectedSeats |-> r.selectedSeats,
                     seatSyncError |-> r.seatSyncError,
                     rejected |-> st.rejected \/ r.tag = "limit"],
                    maxSelectable, Tail(order))

\* The user toggles the seats of order; as history, what toggling them in
\* the order other would have left.
ToggleInOrder(order, other) ==
  LET start == [selectedSeats |-> selectedSeats, seatSyncError |-> seatSyncError,
                rejected |-> FALSE]
      a == ToggleAll(start, MaxSelectable(reservation), order)
      b == ToggleAll(start, MaxSelectable(reservation), other)
  IN /\ WidgetMounted(loading, error, reservation, isSeatModalOpen, seatMap)
     /\ ~isSyncingSeats
     /\ Commit([PageState EXCEPT !.selectedSeats = a.selectedSeats,
                                 !.seatSyncError = a.seatSyncError],
               isSyncingSeats, isSeatModalOpen, showDialog)
     /\ last' = [op |-> "toggleOrders", tag |-> "", arg |-> order, other |-> other,
                 start |-> selectedSeats,
                 rejected |-> a.rejected \/ b.rejected,
                 otherSeats |-> b.selectedSeats]
     /\ UNCHANGED <<reservationId, locationReservation, refreshCount, updates>>

\* The user toggles the seat seatId twice in a row; as history, the
\* selection before the two toggles.
ToggleTwice(seatId) ==
  LET start == [selectedSeats |-> selectedSeats, seatSyncError |-> seatSyncError,
                rejected |-> FALSE]
      a == ToggleAll(start, MaxSelectable(reservation), <<seatId, seatId>>)
  IN /\ WidgetMounted(loading, error, reservation, isSeatModalOpen, seatMap)
     /\ ~isSyncingSeats
     /\ Commit([PageState EXCEPT !.selectedSeats = a.selectedSeats,
                                 !.seatSyncError = a.seatSyncError],
               isSyncingSeats, isSeatModalOpen, showDialog)
     /\ last' = [op |-> "toggleTwice", tag |-> "", arg |-> seatId,
                 start |-> selectedSeats, rejected |-> a.rejected]
     /\ UNCHANGED <<reservationId, locationReservation, refreshCount, updates>>

NextToggleOrders ==
  \/ \E i \in 1..Len(loads) : \E resp \in SuccessResponses \cup FailureResponses :
       LoadSettles(i, resp)
  \/ handleOpenSeatModal
  \/ handleCloseSeatModal
  \/ \E p \in OrderPairs : ToggleInOrder(p[1], p[2])
  \/ \E seatId \in ToggledSeats : ToggleTwice(seatId)

SpecToggleOrders == Init /\ [][NextToggleOrders]_vars

\* what the widget shows and submits for the selection list
SortedOf(list) == SortSeats(Dedupe([i \in 1..Len(list) |-> toUpperCase(list[i])]))

SubmittedOf(list) ==
  NormalizeSeatList(Slice(SortedOf(list), MaxSelectable(reservation)))

IsSorted(s) == \A i \in 1..(Len(s) - 1) : StrLess(s[i], s[i + 1])

\* after the seats were toggled in one order, the selection, the sorted lists
\* shown and the list the widget submits are those of the other order
SameOutcomeInBothOrders ==
  /\ Range(selectedSeats) = Range(last.otherSeats)
  /\ selectedSeatChips = SortSeats(last.otherSeats)
  /\ sortedSelected = SortedOf(last.otherSeats)
  /\ IsSorted(sortedSelected) /\ IsSorted(selectedSeatChips)
  /\ UpdateRequest(Arr(sortedSelected)).body = SubmittedOf(last.otherSeats)

\* C25 (as claimed): whatever the order in which the same distinct seats are
\* toggled from the same selection, the resulting SelectedSeats are the same
\* set, the sorted list shown is the same and the list the widget submits on
\* confirmation is the same.
C25_ToggleOrderNotSignificant ==
  last.op = "toggleOrders" => SameOutcomeInBothOrders

\* C25 (amended): the same, for two orders in neither of which the
\* selection limit rejects a toggle.
C25_ToggleOrderNotSignificantBelowLimit ==
  (last.op = "toggleOrders" /\ ~last.rejected) => SameOutcomeInBothOrders

C25_Witness ==
  /\ last.op = "toggleOrders" /\ ~last.rejected
  /\ Len(last.arg) = 2
  /\ selectedSeats # last.otherSeats
  /\ Len(selectedSeats) = 2
  /\ sortedSelected = SortedOf(last.otherSeats)

\* ------------------------------------------ the fetch of the mount and a sync
\* The page after its mount, without a change of link and without a retry:
\* every fetch that settles was issued by the mount, so before any call of
\* confirmSelection.
NextMountFetch ==
  \/ \E i \in 1..Len(loads) : \E resp \in SuccessResponses \cup FailureResponses :
       LoadSettles(i, resp)
  \/ handleOpenSeatModal
  \/ handleCloseSeatModal
  \/ \E seatId \in ToggleInputs : ToggleSeat(seatId)
  \/ \E seatIds \in ConfirmInputs : ConfirmSelection(seatIds)
  \/ \E i \in 1..Len(updates) : \E resp \in SuccessResponses \cup FailureResponses :
       UpdateSettles(i, resp)

SpecMountFetch == Init /\ [][NextMountFetch]_vars

\* C26: the result of a fetch issued before a call of confirmSelection does
\* not change SelectedSeats while the sync of that call is in progress, and
\* does not replace the reservation, the seat map and SelectedSeats that the
\* successful completion of that call has just established.
C26_EarlierFetchDoesNotOverwriteSync ==
  [][ last'.op \in LoadSettledOps =>
        /\ isSyncingSeats => selectedSeats' = selectedSeats
        /\ last.op = "updateOk" =>
              UNCHANGED <<reservation, seatMap, selectedSeats>> ]_vars

\* C27: with a reservation loaded and no sync in progress, after the same
\* seat was toggled twice in a row SelectedSeats is the set it was before the
\* two toggles, whatever selection the page held.
C27_ToggleTwiceRestoresSelection ==
  last.op = "toggleTwice" => Range(selectedSeats) = Range(last.start)

\* ------------------------------------------- the widget and an empty selection
\* a success envelope whose seat selection is the empty list
EmptySelectionShape ==
  [pc |-> 2, n |-> 2, sel |-> Arr(<<>>), selCamel |-> NotArray, upd |-> "t3",
   asg |-> Arr(<< <<"1", "C">> >>), asgUpd |-> "t0", map |-> CabinA]

ResponsesWithEmptySelection ==
  SuccessResponses \cup FailureResponses \cup {DataOk(EmptySelectionShape)}

\* The page used through the seat-map widget alone, with a server that may
\* also return a reservation without seats.
NextWidget ==
  \/ \E i \in 1..Len(loads) : \E resp \in ResponsesWithEmptySelection :
       LoadSettles(i, resp)
  \/ handleOpenSeatModal
  \/ handleCloseSeatModal
  \/ \E i \in 1..Len(seatMap.seats) : SeatClick(i)
  \/ handleConfirm
  \/ CancelDialog
  \/ handleConfirmDialog
  \/ \E i \in 1..Len(updates) : \E resp \in ResponsesWithEmptySelection :
       UpdateSettles(i, resp)

SpecWidget == Init /\ [][NextWidget]_vars

\* C28: used through the widget, no update request carries an empty seat
\* list and none is issued while another is outstanding: the confirmation
\* dialog is opened, and the confirmation sent from it (with the seats shown
\* in it), only with a selection that is not empty and with no sync in
\* progress, also when a load has emptied SelectedSeats under the open dialog.
C28_WidgetNeverSubmitsEmptyOrWhileSyncing ==
  /\ Len(updates) <= 1
  /\ \A i \in 1..Len(updates) :
       /\ updates[i].input # <<>>
       /\ updates[i].body # <<>>
       /\ updates[i].input = SortSeats(updates[i].selectedAtCall)
  /\ last.op = "openDialog" => (sortedSelected # <<>> /\ ~isSyncingSeats)
  /\ last.op = "confirmDialog" =>
       (last.tag = "sent" /\ Len(updates) = 1 /\ isSyncingSeats)

C28_Witness ==
  /\ last.op = "loadOk" /\ last.tag = "current"
  /\ showDialog
  /\ selectedSeats = <<>>
  /\ ~isSyncingSeats /\ updates = <<>>

\* a fetch is outstanding whose result will be applied
CurrentLoadOutstanding == \E i \in 1..Len(loads) : ~loads[i].cancelled

\* the load effect of the link shown took the preloaded reservation
ShowsInitialPreload ==
  refreshCount = 0 /\ ~preloadedReservation(reservationId, locationReservation).isNull

\* C29: once the fetch of a load that no newer load has superseded has
\* settled, with success or failure, the loading flag is false; the flag is
\* set only while a fetch whose result will be applied is outstanding; and
\* while such a fetch is outstanding the flag is set (whatever superseded
\* loads have settled meanwhile) unless the page shows the preloaded
\* reservation of its link on the first load, when it is false.
C29_LoadingFlagSettles ==
  /\ (last.op \in LoadSettledOps /\ last.tag # "superseded") => ~loading
  /\ loading => CurrentLoadOutstanding
  /\ CurrentLoadOutstanding => (loading <=> ~ShowsInitialPreload)

C29_Witness ==
  /\ last.op = "loadFailed" /\ last.tag = "current"
  /\ refreshCount = 1
  /\ ~locationReservation.isNull
  /\ ~loading /\ loads = <<>>

\* ------------------------------------------------------------------ chat page
\* what the user types into the chat input
ChatInputs == { <<" ">>, <<"h", "i">>, <<" ", "h", "i", " ">> }

\* POST .../sessions comes back with no payload, with a payload naming the
\* session, with a payload naming none, or fails
SessionResponses ==
  { [ok |-> TRUE, payload |-> FALSE, name |-> ""],
    [ok |-> TRUE, payload |-> TRUE, name |-> "s1"],
    [ok |-> TRUE, payload |-> TRUE, name |-> ""],
    [ok |-> FALSE, payload |-> FALSE, name |-> ""] }

\* POST /run comes back with some replies, with or without a reservation, or fails
SendResponses ==
  { [ok |-> TRUE, replies |-> n, reservations |-> b] : n \in 0..2, b \in BOOLEAN }
  \cup { [ok |-> FALSE, replies |-> 0, reservations |-> FALSE] }

\* apiClient.js: the session name of a payload, '' if there is none
extractSessionId(resp) == IF ~resp.payload THEN "" ELSE resp.name

\* the assistant bubbles a reply adds: the fallback bubble if there is no reply
AssistantBubbles(n) == [i \in 1..(IF n = 0 THEN 1 ELSE n) |-> "assistant"]

\* initSession after createSession has come back with resp
initSession(st, cancelled, resp) ==
  LET settled == [st EXCEPT !.sessionRequest = FALSE]
      sessionName == extractSessionId(resp)
  IN IF cancelled THEN settled
     ELSE IF resp.ok /\ sessionName # ""
     THEN [settled EXCEPT !.sessionId = sessionName, !.chatError = "",
                          !.sessionLoading = FALSE]
     ELSE [settled EXCEPT
             !.chatError = "Unable to connect to the airline assistant right now. Please refresh or try again shortly.",
             !.sessionLoading = FALSE]

SessionSettles(resp) ==
  /\ chat.sessionRequest
  /\ chat' = initSession(chat, ~chat.mounted, resp)
  /\ last' = Step("session", IF resp.ok /\ extractSessionId(resp) # "" THEN "ok" ELSE "failed", <<>>)
  /\ PageUntouched

\* onChange of the chat input, which is disabled while the session is loading
handleInputChange(text) ==
  /\ chat.mounted
  /\ ~chat.sessionLoading
  /\ chat' = [chat EXCEPT !.input = text]
  /\ last' = Step("input", "", text)
  /\ PageUntouched

SubmitBlockedBlankOnly(st) == trim(st.input) = <<>>

\* handleSubmit returns at once on blank input or while a send is pending
SubmitBlocked(st) == trim(st.input) = <<>> \/ st.isSending

\* handleSubmit, the form being submitted
handleSubmit ==
  /\ chat.mounted
  /\ LET trimmed == trim(chat.input)
     IN IF SubmitBlocked(chat)
        THEN /\ chat' = chat
             /\ last' = Step("submit", "ignored", <<>>)
        ELSE IF chat.sessionId = ""
        THEN /\ chat' = [chat EXCEPT !.chatError =
                           "Still connecting to the assistant. Please try again in a moment."]
             /\ last' = Step("submit", "noSession", <<>>)
        ELSE /\ chat.issued < MaxSends
             /\ chat' = [chat EXCEPT
                           !.messages = Append(@, "user"),
                           !.input = <<>>,
                           !.chatError = "",
                           !.isSending = TRUE,
                           !.sends = Append(@, [sessionId |-> chat.sessionId,
                                                message |-> trimmed]),
                           !.issued = @ + 1]
             /\ last' = Step("submit", "sent", trimmed)
  /\ PageUntouched

\* the rest of handleSubmit once the request i has come back with resp: a
\* reservation in the reply moves to the reservation page, which unmounts
\* ChatApp; updates of an unmounted ChatApp are dropped
SendSettled(st, i, resp) ==
  LET settled == [st EXCEPT !.sends = SubSeq(@, 1, i - 1) \o SubSeq(@, i + 1, Len(@))]
  IN IF ~st.mounted THEN settled
     ELSE IF resp.ok
     THEN [settled EXCEPT !.messages = @ \o AssistantBubbles(resp.replies),
                          !.isSending = FALSE,
                          !.mounted = ~resp.reservations]
     ELSE [settled EXCEPT
             !.messages = Append(@, "assistant"),
             !.chatError = "Your last message did not go through. Please try again when you are ready.",
             !.isSending = FALSE]

SendSettles(i, resp) ==
  /\ i \in 1..Len(chat.sends)
  /\ chat' = SendSettled(chat, i, resp)
  /\ last' = Step("send", IF resp.ok THEN "ok" ELSE "failed", <<>>)
  /\ PageUntouched

\* the reservation page goes back to "/": a fresh ChatApp is mounted
ReturnToChat ==
  /\ ~chat.mounted
  /\ chat' = [ChatMounted EXCEPT !.sends = chat.sends, !.issued = chat.issued]
  /\ last' = Step("return", "", <<>>)
  /\ PageUntouched

NextChat ==
  \/ \E resp \in SessionResponses : SessionSettles(resp)
  \/ \E text \in ChatInputs : handleInputChange(text)
  \/ handleSubmit
  \/ \E i \in 1..MaxSends : \E resp \in SendResponses : SendSettles(i, resp)
  \/ ReturnToChat

SpecChat == Init /\ [][NextChat]_vars

\* C30: at most one message request is in flight at a time and each carries
\* the session id that was established; a submit while a send is pending, with
\* blank input or without a session id issues no request; and once a send has
\* come back, with a reply or with a failure, the sending flag is cleared.
C30_OneSendAtATimeWithSession ==
  [][ /\ Len(chat'.sends) <= 1
      /\ \A i \in 1..Len(chat'.sends) :
           /\ chat'.sends[i].sessionId # ""
           /\ chat'.sends[i].sessionId = chat.sessionId
      /\ (last'.op = "submit" /\ chat'.sends # chat.sends)
           => /\ ~chat.isSending
              /\ trim(chat.input) # <<>>
              /\ chat.sessionId # ""
              /\ chat.sends = <<>>
              /\ chat'.isSending
      /\ last'.op = "send" => ~chat'.isSending ]_vars

\* a second message is sent in the session after the first one failed
C30_Witness ==
  /\ last.op = "submit" /\ last.tag = "sent"
  /\ chat.issued = 2
  /\ chat.isSending
  /\ Len(chat.sends) = 1
  /\ chat.sends[1].sessionId = "s1"
  /\ Len(chat.messages) = 4

====
